---------------------------- MODULE Spec2Model ----------------------------
(***************************************************************************)
(* Model of luillyfe/assessment-data-pipeline:                             *)
(*   - the retrying extraction element (ExtractInsights.ProcessElement and *)
(*     ExtractInsights.extractInsights, with encoding/json's Unmarshal     *)
(*     into InsightsResult),                                               *)
(*   - the provider adapters' GenerateText and their constructors with     *)
(*     functional options (package llm), also with option functions        *)
(*     invoked after construction and with callers sharing one adapter.    *)
(*   - the caller's context.Context: its cancellation, seen by GenerateText *)
(*     and by the retry loop.                                              *)
(***************************************************************************)
EXTENDS Integers, Sequences, FiniteSets, TLC

(***************************************************************************)
(* Bounds of the model.                                                    *)
(***************************************************************************)
\* largest ExtractInsights.MaxRetries explored
MaxRetriesBound == 3

\* longest list of options given to a constructor
MaxOptions == 2

\* longest GenerateOptions.Tools list given to an adapter
MaxTools == 2

\* callers (goroutines) sharing one adapter
MaxCallers == 2

(***************************************************************************)
(* JSON texts.  A response text is modelled by its lexical shape (syntax)  *)
(* and, when it is one JSON value possibly wrapped, by that value.  A JSON *)
(* value is [t |-> kind, v |-> content]; objects hold their members as a   *)
(* sequence of <<key, value>> in document order.                           *)
(***************************************************************************)
JStr(s) == [t |-> "string", v |-> s]

\* a number literal in integer syntax (8)
JInt(n) == [t |-> "number", v |-> n]

\* a number literal with a fractional part (8.5): v is its integer part
JFrac(n) == [t |-> "fraction", v |-> n]

JArr(elems) == [t |-> "array", v |-> elems]

JObj(members) == [t |-> "object", v |-> members]

JNull == [t |-> "null", v |-> <<>>]

\* the text is exactly one JSON value
Text(val) == [syntax |-> "json", value |-> val]

\* ```json ... ``` around a JSON value
Fenced(val) == [syntax |-> "fenced", value |-> val]

\* a JSON value followed by a // comment
Commented(val) == [syntax |-> "trailing_comment", value |-> val]

\* a JSON value cut before its closing brace: {"invalid": "json"
Truncated(val) == [syntax |-> "truncated", value |-> val]

(***************************************************************************)
(* InsightsResult (part_007:192-199).  Go distinguishes a nil slice or map *)
(* from an empty one, so both carry a nil flag.                            *)
(***************************************************************************)
NilSlice == [nil |-> TRUE, elems |-> <<>>]

Slice(s) == [nil |-> FALSE, elems |-> s]

NilMap == [nil |-> TRUE, kv |-> {}]

\* the zero value InsightsResult{}
ZeroInsights ==
    [OverallAssessment  |-> "",
     CorrectAnswers     |-> 0,
     Strengths          |-> NilSlice,
     Weaknesses         |-> NilSlice,
     ActionableFeedback |-> NilMap,
     BusinessImpact     |-> NilMap]

\* the json struct tags of InsightsResult: tag -> field
FieldOfTag ==
    [overall_assessment            |-> "OverallAssessment",
     questions_answered_correctly  |-> "CorrectAnswers",
     strengths                     |-> "Strengths",
     weaknesses                    |-> "Weaknesses",
     actionable_feedback           |-> "ActionableFeedback",
     business_case_impact_analysis |-> "BusinessImpact"]

\* the "required" list of insights_schema.json
SchemaRequired ==
    {"overall_assessment", "questions_answered_correctly", "strengths",
     "weaknesses", "actionable_feedback", "business_case_impact_analysis"}


(***************************************************************************)
(* json.Unmarshal([]byte(text), &insights) for a fresh InsightsResult.     *)
(* encoding/json first validates the whole text; a type mismatch is saved  *)
(* and decoding goes on; a key that matches no struct tag is skipped; a    *)
(* missing key leaves the field at its zero value; null leaves a string or *)
(* int untouched and sets a slice or map to nil.                           *)
(***************************************************************************)
RECURSIVE DecodeStrings_Reversed(_)
\* faulty variant: the elements are prepended as they are decoded, reversing the list
DecodeStrings_Reversed(elems) ==
    IF elems = <<>> THEN [elems |-> <<>>, bad |-> FALSE]
    ELSE LET e    == Head(elems)
             rest == DecodeStrings_Reversed(Tail(elems))
         IN  [elems |-> rest.elems \o <<(IF e.t = "string" THEN e.v ELSE "")>>,
              bad   |-> rest.bad \/ e.t \notin {"string", "null"}]

RECURSIVE DecodeStrings(_)
\* the elements of a JSON array decoded into a []string
DecodeStrings(elems) ==
    IF elems = <<>> THEN [elems |-> <<>>, bad |-> FALSE]
    ELSE LET e    == Head(elems)
             rest == DecodeStrings(Tail(elems))
         IN  [elems |-> <<(IF e.t = "string" THEN e.v ELSE "")>> \o rest.elems,
              bad   |-> rest.bad \/ e.t \notin {"string", "null"}]

RECURSIVE DecodeMap(_, _)
\* the members of a JSON object stored into a map[string]string
DecodeMap(kv, members) ==
    IF members = <<>> THEN [kv |-> kv, bad |-> FALSE]
    ELSE LET m    == Head(members)
             val  == IF m[2].t = "string" THEN m[2].v ELSE ""
             kv1  == {p \in kv : p[1] # m[1]} \cup {<<m[1], val>>}
             rest == DecodeMap(kv1, Tail(members))
         IN  [kv  |-> rest.kv,
              bad |-> rest.bad \/ m[2].t \notin {"string", "null"}]

\* one JSON value decoded into the struct field `field` of ins
DecodeField(ins, field, val) ==
    CASE field = "OverallAssessment" ->
           IF val.t = "string" THEN [ins |-> [ins EXCEPT ![field] = val.v], bad |-> FALSE]
           ELSE [ins |-> ins, bad |-> val.t # "null"]
      [] field = "CorrectAnswers" ->
           IF val.t = "number" THEN [ins |-> [ins EXCEPT ![field] = val.v], bad |-> FALSE]
           ELSE [ins |-> ins, bad |-> val.t # "null"]
      [] field \in {"Strengths", "Weaknesses"} ->
           IF val.t = "array"
           THEN LET d == DecodeStrings(val.v)
                IN  [ins |-> [ins EXCEPT ![field] = Slice(d.elems)], bad |-> d.bad]
           ELSE IF val.t = "null"
           THEN [ins |-> [ins EXCEPT ![field] = NilSlice], bad |-> FALSE]
           ELSE [ins |-> ins, bad |-> TRUE]
      [] OTHER ->
           IF val.t = "object"
           THEN LET d == DecodeMap(ins[field].kv, val.v)
                IN  [ins |-> [ins EXCEPT ![field] = [nil |-> FALSE, kv |-> d.kv]],
                     bad |-> d.bad]
           ELSE IF val.t = "null"
           THEN [ins |-> [ins EXCEPT ![field] = NilMap], bad |-> FALSE]
           ELSE [ins |-> ins, bad |-> TRUE]

RECURSIVE DecodeObject(_, _)
\* the members of the top-level object, in document order
DecodeObject(ins, members) ==
    IF members = <<>> THEN [ins |-> ins, bad |-> FALSE]
    ELSE LET m == Head(members)
         IN  IF m[1] \notin DOMAIN FieldOfTag
             THEN DecodeObject(ins, Tail(members))
             ELSE LET d    == DecodeField(ins, FieldOfTag[m[1]], m[2])
                      rest == DecodeObject(d.ins, Tail(members))
                  IN  [ins |-> rest.ins, bad |-> d.bad \/ rest.bad]

\* faulty variant: code fences and a trailing comment are stripped before decoding
Unmarshal_Lenient(text) ==
    IF text.syntax \notin {"json", "fenced", "trailing_comment"}
    THEN [insights |-> ZeroInsights, err |-> "SyntaxError"]
    ELSE IF text.value.t = "null" THEN [insights |-> ZeroInsights, err |-> "nil"]
    ELSE IF text.value.t # "object"
    THEN [insights |-> ZeroInsights, err |-> "UnmarshalTypeError"]
    ELSE LET d == DecodeObject(ZeroInsights, text.value.v)
         IN  [insights |-> d.ins,
              err      |-> IF d.bad THEN "UnmarshalTypeError" ELSE "nil"]

\* json.Unmarshal: err is "nil", "SyntaxError" or "UnmarshalTypeError"
Unmarshal(text) ==
    IF text.syntax # "json" THEN [insights |-> ZeroInsights, err |-> "SyntaxError"]
    ELSE IF text.value.t = "null" THEN [insights |-> ZeroInsights, err |-> "nil"]
    ELSE IF text.value.t # "object"
    THEN [insights |-> ZeroInsights, err |-> "UnmarshalTypeError"]
    ELSE LET d == DecodeObject(ZeroInsights, text.value.v)
         IN  [insights |-> d.ins,
              err      |-> IF d.bad THEN "UnmarshalTypeError" ELSE "nil"]

(***************************************************************************)
(* The response texts a LanguageModel may return.                          *)
(***************************************************************************)
\* the response of TestExtractInsights_ProcessElement, "Successful extraction"
GoodPerformance ==
    << <<"overall_assessment", JStr("Good performance")>>,
       <<"questions_answered_correctly", JInt(8)>>,
       <<"strengths", JArr(<<JStr("Data modeling"), JStr("ETL processes")>>)>>,
       <<"weaknesses", JArr(<<JStr("Cloud security")>>)>>,
       <<"actionable_feedback", JObj(<< <<"study", JStr("Focus on cloud security concepts")>> >>)>>,
       <<"business_case_impact_analysis", JObj(<< <<"efficiency", JStr("Improved data pipeline design")>> >>)>> >>

\* the response of TestExtractInsights_extractInsights, with its strengths swapped
Excellent ==
    << <<"overall_assessment", JStr("Excellent")>>,
       <<"questions_answered_correctly", JInt(10)>>,
       <<"strengths", JArr(<<JStr("ETL processes"), JStr("Data modeling")>>)>>,
       <<"weaknesses", JArr(<<>>)>>,
       <<"actionable_feedback", JObj(<< <<"advance", JStr("Explore advanced cloud patterns")>> >>)>>,
       <<"business_case_impact_analysis", JObj(<< <<"innovation", JStr("Can lead cloud migration projects")>> >>)>> >>

\* questions_answered_correctly given as a string
WrongType == [GoodPerformance EXCEPT ![2] = <<"questions_answered_correctly", JStr("eight")>>]

\* strengths given as null
NullStrengths == [GoodPerformance EXCEPT ![3] = <<"strengths", JNull>>]

\* a property the schema does not declare
ExtraProperty == Append(GoodPerformance, <<"notes", JStr("n/a")>>)

\* the empty text ""
NoText == [syntax |-> "empty", value |-> JNull]

Texts ==
    { Text(JObj(GoodPerformance)),
      Text(JObj(Excellent)),
      Text(JObj(<<>>)),
      Text(JObj(SubSeq(GoodPerformance, 1, 2))),
      Text(JObj(ExtraProperty)),
      Text(JObj(WrongType)),
      Text(JObj(NullStrengths)),
      Text(JNull),
      NoText,
      Truncated(JObj(<< <<"invalid", JStr("json")>> >>)),
      Fenced(JObj(GoodPerformance)),
      Commented(JObj(GoodPerformance)) }

\* the errors a LanguageModel's GenerateText may return
GenerateErrors == {"TransportError", "ToolMismatchError", "DeadlineExceeded"}

\* what one GenerateText call returns: (text, nil) or ("", err)
Outcomes ==
    {[text |-> t, err |-> "nil"] : t \in Texts}
      \cup {[text |-> NoText, err |-> e] : e \in GenerateErrors}

(***************************************************************************)
(* Package llm: adapters, their constructors and the functional options.   *)
(* An adapter is a record of its concrete type (provider), its generation  *)
(* parameters and the API key its client was built with.  Temperature and  *)
(* top-p are held in tenths (0.7 is 7, 1 is 10).                           *)
(***************************************************************************)
EnvVars == {"CLAUDE_API_KEY", "MISTRAL_API_KEY", "GEMINI_API_KEY"}

\* no adapter (yet)
NoLLM == [provider |-> "none"]

\* opts == nil
NilOptions == [nil |-> TRUE, Tools |-> <<>>, ResponseMIMEType |-> ""]

\* no request to a provider's client
NoRequest == [Model |-> "none"]

\* no answer of a provider's client (yet)
NoAnswer == [err |-> "none", items |-> <<>>]

\* no GenerateText call (yet)
NoCall ==
    [provider |-> "none", opts |-> NilOptions, phase |-> "none", issued |-> FALSE,
     request |-> NoRequest, answer |-> NoAnswer, text |-> <<>>, err |-> "nil",
     panic |-> FALSE]

\* WithMaxTokens(maxTokens): the option writes maxTokens
WithMaxTokens(maxTokens) == [field |-> "maxTokens", int |-> maxTokens, str |-> ""]

\* WithModelName(modelName): the option writes modelName
WithModelName(modelName) == [field |-> "modelName", int |-> 0, str |-> modelName]

\* opt(l): the type switch of the option function over the three adapter types
ApplyOption(l, opt) ==
    IF l.provider \in {"mistral", "anthropic", "gemini"}
    THEN IF opt.field = "maxTokens"
         THEN [l EXCEPT !.maxTokens = opt.int]
         ELSE [l EXCEPT !.modelName = opt.str]
    ELSE l

RECURSIVE ApplyOptions_Reversed(_, _)
\* faulty variant: the options are applied from the last to the first
ApplyOptions_Reversed(l, opts) ==
    IF opts = <<>> THEN l
    ELSE ApplyOption(ApplyOptions_Reversed(l, Tail(opts)), Head(opts))

RECURSIVE ApplyOptions(_, _)
\* for _, opt := range opts { opt(llm) }
ApplyOptions(l, opts) ==
    IF opts = <<>> THEN l
    ELSE ApplyOptions(ApplyOption(l, Head(opts)), Tail(opts))

\* os.Getenv(name): "" when the variable is not set
Getenv(e, name) == IF name \in e THEN "key" ELSE ""

\* the adapter NewAnthropicLLM returns
anthropicLLM(e, opts) ==
    ApplyOptions([provider    |-> "anthropic",
                  modelName   |-> "claude-instant-1.2",
                  temperature |-> 7,
                  maxTokens   |-> 512,
                  topP        |-> 10,
                  apiKey      |-> Getenv(e, "CLAUDE_API_KEY")], opts)

\* faulty variant: another default for maxTokens
mistralLLM_OtherDefault(e, opts) ==
    ApplyOptions([provider    |-> "mistral",
                  modelName   |-> "mistral-small-latest",
                  temperature |-> 7,
                  maxTokens   |-> 256,
                  topP        |-> 10,
                  apiKey      |-> Getenv(e, "MISTRAL_API_KEY")], opts)

\* the adapter NewMistralLLM returns
mistralLLM(e, opts) ==
    ApplyOptions([provider    |-> "mistral",
                  modelName   |-> "mistral-small-latest",
                  temperature |-> 7,
                  maxTokens   |-> 512,
                  topP        |-> 10,
                  apiKey      |-> Getenv(e, "MISTRAL_API_KEY")], opts)

\* the adapter NewGeminiClient returns when GEMINI_API_KEY is set
geminiLLM(e, opts) ==
    ApplyOptions([provider    |-> "gemini",
                  modelName   |-> "gemini-1.5-pro-exp-0801",
                  temperature |-> 7,
                  maxTokens   |-> 512,
                  topP        |-> 10,
                  apiKey      |-> Getenv(e, "GEMINI_API_KEY")], opts)

(***************************************************************************)
(* State.                                                                  *)
(***************************************************************************)
VARIABLES
    ei,         \* the ExtractInsights element: MaxRetries, RetryDelay
    pc,         \* where ProcessElement stands for the record
    attempt,    \* ProcessElement's loop variable
    insights,   \* ProcessElement's local insights
    err,        \* ProcessElement's local err
    generated,  \* what ei.model.GenerateText returned, one entry per call
    inflight,   \* GenerateText calls issued and not yet returned
    sleeps,     \* time.Sleep(ei.RetryDelay) calls made
    emitted,    \* the arguments of the emit calls, in order
    env,        \* the environment variables that are set
    proc,       \* "running", or "exited" after log.Fatal
    llm,        \* the adapter a constructor of package llm returned
    options,    \* the options that constructor was given
    lastCall,   \* the latest GenerateText call on llm and what came of it
    calls,      \* the GenerateText call of each caller sharing llm
    ctx         \* the caller's context.Context: cancelled or not, and when

elemVars == <<ei, pc, attempt, insights, err, generated, inflight, sleeps, emitted>>

llmVars == <<env, proc, llm, options, lastCall, calls, ctx>>

vars == <<elemVars, llmVars>>

\* a context that is not cancelled.  A cancelled one keeps how many GenerateText
\* calls had begun under it when it was cancelled and whether one was in flight
Live == [cancelled |-> FALSE, begun |-> 0, inflight |-> FALSE]

\* the adapter hands the context to its client: a.client.CreateMessages(ctx, ...),
\* session.SendMessage(ctx, ...), but m.client.Chat(model, messages, params)
PassesContext(provider) == provider \in {"anthropic", "gemini"}

\* cancel() of the caller's context, with begun calls begun and one in flight or not
Cancel(begun, flying) ==
    /\ ~ctx.cancelled
    /\ ctx' = [cancelled |-> TRUE, begun |-> begun, inflight |-> flying]
    /\ UNCHANGED <<env, proc, llm, options, lastCall, calls, elemVars>>

\* the callers sharing the adapter
Callers == 1..MaxCallers

\* no caller has called GenerateText (yet)
NoCalls == [c \in Callers |-> NoCall]

\* the retry delay transformData gives the element (seconds)
RetryDelaySeconds == 10

\* NewExtractInsights(maxRetries, retryDelay)
NewExtractInsights(maxRetries, retryDelay) ==
    [MaxRetries |-> maxRetries, RetryDelay |-> retryDelay]

Init ==
    /\ ei \in {NewExtractInsights(n, RetryDelaySeconds) : n \in 0..MaxRetriesBound}
    /\ pc = "idle"
    /\ attempt = 0
    /\ insights = ZeroInsights
    /\ err = "nil"
    /\ generated = <<>>
    /\ inflight = 0
    /\ sleeps = 0
    /\ emitted = <<>>
    /\ env = EnvVars
    /\ proc = "running"
    /\ llm = NoLLM
    /\ options = <<>>
    /\ lastCall = NoCall
    /\ calls = NoCalls
    /\ ctx = Live

\* faulty variant: a decode failure returns what Unmarshal filled in so far
extractInsights_KeepPartial(outcome) ==
    IF outcome.err # "nil"
    THEN [insights |-> ZeroInsights, err |-> "error generating text"]
    ELSE LET u == Unmarshal(outcome.text)
         IN  IF u.err # "nil"
             THEN [insights |-> u.insights, err |-> "error unmarshaling insights"]
             ELSE [insights |-> u.insights, err |-> "nil"]

(***************************************************************************)
(* ExtractInsights.extractInsights, from the return of GenerateText on:    *)
(* the (InsightsResult, error) it returns for what GenerateText returned.  *)
(***************************************************************************)
extractInsights(outcome) ==
    IF outcome.err # "nil"
    THEN [insights |-> ZeroInsights, err |-> "error generating text"]
    ELSE LET u == Unmarshal(outcome.text)
         IN  IF u.err # "nil"
             THEN [insights |-> ZeroInsights, err |-> "error unmarshaling insights"]
             ELSE [insights |-> u.insights, err |-> "nil"]

(***************************************************************************)
(* ExtractInsights.ProcessElement.                                         *)
(***************************************************************************)
\* the runner hands the record to ProcessElement: var insights, err
ProcessElement ==
    /\ pc = "idle"
    /\ pc' = "loop"
    /\ attempt' = 0
    /\ insights' = ZeroInsights
    /\ err' = "nil"
    /\ UNCHANGED <<ei, generated, inflight, sleeps, emitted, llmVars>>

\* faulty variant: the loop condition is attempt <= ei.MaxRetries
CallGenerateText_OffByOne ==
    /\ pc = "loop"
    /\ attempt <= ei.MaxRetries
    /\ pc' = "generating"
    /\ inflight' = inflight + 1
    /\ UNCHANGED <<ei, attempt, insights, err, generated, sleeps, emitted, llmVars>>

\* faulty variant: the next attempt may start while the delay is still running
CallGenerateText_NoWait ==
    /\ \/ pc = "loop" /\ attempt < ei.MaxRetries /\ attempt' = attempt
       \/ pc = "sleep" /\ attempt + 1 < ei.MaxRetries /\ attempt' = attempt + 1
    /\ pc' = "generating"
    /\ inflight' = inflight + 1
    /\ UNCHANGED <<ei, insights, err, generated, sleeps, emitted, llmVars>>

\* attempt < ei.MaxRetries: extractInsights builds the prompt and calls GenerateText
CallGenerateText ==
    /\ pc = "loop"
    /\ attempt < ei.MaxRetries
    /\ pc' = "generating"
    /\ inflight' = inflight + 1
    /\ UNCHANGED <<ei, attempt, insights, err, generated, sleeps, emitted, llmVars>>

\* faulty variant: no return after emit, the loop goes on
AttemptReturns_NoReturn(outcome) ==
    /\ pc = "generating"
    /\ inflight' = inflight - 1
    /\ generated' = Append(generated, outcome)
    /\ LET r == extractInsights(outcome)
       IN  /\ insights' = r.insights
           /\ err' = r.err
           /\ emitted' = IF r.err = "nil" THEN Append(emitted, r.insights) ELSE emitted
           /\ pc' = "sleep"
    /\ UNCHANGED <<ei, attempt, sleeps, llmVars>>

\* faulty variant: a failed attempt hands its error to the runner, which aborts
AttemptReturns_Propagates(outcome) ==
    /\ pc = "generating"
    /\ inflight' = inflight - 1
    /\ generated' = Append(generated, outcome)
    /\ LET r == extractInsights(outcome)
       IN  /\ insights' = r.insights
           /\ err' = r.err
           /\ IF r.err = "nil"
              THEN /\ emitted' = Append(emitted, r.insights)
                   /\ pc' = "done"
              ELSE /\ emitted' = emitted
                   /\ pc' = "aborted"
    /\ UNCHANGED <<ei, attempt, sleeps, llmVars>>

\* GenerateText returns; extractInsights returns; err == nil: emit and return,
\* otherwise log the failed attempt
AttemptReturns(outcome) ==
    /\ pc = "generating"
    /\ inflight' = inflight - 1
    /\ generated' = Append(generated, outcome)
    /\ LET r == extractInsights(outcome)
       IN  /\ insights' = r.insights
           /\ err' = r.err
           /\ IF r.err = "nil"
              THEN /\ emitted' = Append(emitted, r.insights)
                   /\ pc' = "done"
              ELSE /\ emitted' = emitted
                   /\ pc' = "sleep"
    /\ UNCHANGED <<ei, attempt, sleeps, llmVars>>

\* time.Sleep(ei.RetryDelay); attempt++
Sleep ==
    /\ pc = "sleep"
    /\ sleeps' = sleeps + 1
    /\ attempt' = attempt + 1
    /\ pc' = "loop"
    /\ UNCHANGED <<ei, insights, err, generated, inflight, emitted, llmVars>>

\* faulty variant: exhaustion emits the zero InsightsResult
GiveUp_EmitZero ==
    /\ pc = "loop"
    /\ ~(attempt < ei.MaxRetries)
    /\ pc' = "done"
    /\ emitted' = Append(emitted, insights)
    /\ UNCHANGED <<ei, attempt, insights, err, generated, inflight, sleeps, llmVars>>

\* faulty variant: the loop is left only once attempt has passed ei.MaxRetries
GiveUp_OffByOne ==
    /\ pc = "loop"
    /\ attempt > ei.MaxRetries
    /\ pc' = "done"
    /\ UNCHANGED <<ei, attempt, insights, err, generated, inflight, sleeps, emitted, llmVars>>

\* faulty variant: the loop is also left once the context is cancelled
GiveUp_OnCancel ==
    /\ pc = "loop"
    /\ ~(attempt < ei.MaxRetries) \/ ctx.cancelled
    /\ pc' = "done"
    /\ UNCHANGED <<ei, attempt, insights, err, generated, inflight, sleeps, emitted, llmVars>>

\* the loop ends with attempt >= ei.MaxRetries: log the failure and return
GiveUp ==
    /\ pc = "loop"
    /\ ~(attempt < ei.MaxRetries)
    /\ pc' = "done"
    /\ UNCHANGED <<ei, attempt, insights, err, generated, inflight, sleeps, emitted, llmVars>>

Next ==
    \/ ProcessElement
    \/ CallGenerateText
    \/ \E outcome \in Outcomes : AttemptReturns(outcome)
    \/ Sleep
    \/ GiveUp

Spec == Init /\ [][Next]_vars

\* the invocation keeps running: GenerateText returns (extractInsights bounds it
\* by a 30 s timeout), time.Sleep returns, the loop goes on
SpecFair == Spec /\ WF_vars(Next)

(***************************************************************************)
(* ProcessElement under a context the runner may cancel at any moment,     *)
(* with the adapter ExtractInsights.Setup gives the element.  The context  *)
(* reaches GenerateText through extractInsights' context.WithTimeout; the  *)
(* loop itself and time.Sleep never look at it.                            *)
(***************************************************************************)
\* GenerateText under a cancelled context that the adapter hands to its client
CanceledOutcome == [text |-> NoText, err |-> "Canceled"]

\* what a GenerateText call may return otherwise: a good response, a response
\* that does not decode, an error
LiveOutcomes ==
    {[text |-> Text(JObj(GoodPerformance)), err |-> "nil"],
     [text |-> Truncated(JObj(<< <<"invalid", JStr("json")>> >>)), err |-> "nil"],
     [text |-> NoText, err |-> "TransportError"]}

OutcomesUnder(provider, c) ==
    IF c.cancelled /\ PassesContext(provider) THEN {CanceledOutcome} ELSE LiveOutcomes

\* ei.model = llm.NewGeminiClient(llm.WithMaxTokens(8192))
Setup ==
    /\ options = <<WithMaxTokens(8192)>>
    /\ llm = geminiLLM(env, options)

InitCtx ==
    /\ ei \in {NewExtractInsights(n, RetryDelaySeconds) : n \in 0..MaxRetriesBound}
    /\ pc = "idle"
    /\ attempt = 0
    /\ insights = ZeroInsights
    /\ err = "nil"
    /\ generated = <<>>
    /\ inflight = 0
    /\ sleeps = 0
    /\ emitted = <<>>
    /\ env = EnvVars
    /\ proc = "running"
    /\ Setup
    /\ lastCall = NoCall
    /\ calls = NoCalls
    /\ ctx = Live

NextCtx ==
    \/ ProcessElement
    \/ CallGenerateText
    \/ \E outcome \in OutcomesUnder(llm.provider, ctx) : AttemptReturns(outcome)
    \/ Sleep
    \/ GiveUp
    \/ Cancel(Len(generated) + inflight, inflight > 0)

SpecCtx == InitCtx /\ [][NextCtx]_vars

(***************************************************************************)
(* The constructors of package llm, called with any list of options in any *)
(* environment.                                                            *)
(***************************************************************************)
Options ==
    {WithMaxTokens(n) : n \in {-1, 0, 8192}} \cup {WithModelName(m) : m \in {"X", "Y"}}

OptionLists == UNION {[1..n -> Options] : n \in 0..MaxOptions}

InitConfig ==
    /\ ei = NewExtractInsights(0, RetryDelaySeconds)
    /\ pc = "idle"
    /\ attempt = 0
    /\ insights = ZeroInsights
    /\ err = "nil"
    /\ generated = <<>>
    /\ inflight = 0
    /\ sleeps = 0
    /\ emitted = <<>>
    /\ env \in SUBSET EnvVars
    /\ proc = "running"
    /\ llm = NoLLM
    /\ options = <<>>
    /\ lastCall = NoCall
    /\ calls = NoCalls
    /\ ctx = Live

NewAnthropicLLM(opts) ==
    /\ proc = "running"
    /\ llm = NoLLM
    /\ llm' = anthropicLLM(env, opts)
    /\ options' = opts
    /\ UNCHANGED <<env, proc, lastCall, calls, ctx, elemVars>>

NewMistralLLM(opts) ==
    /\ proc = "running"
    /\ llm = NoLLM
    /\ llm' = mistralLLM(env, opts)
    /\ options' = opts
    /\ UNCHANGED <<env, proc, lastCall, calls, ctx, elemVars>>

\* log.Fatal without GEMINI_API_KEY or when genai.NewClient fails
NewGeminiClient(opts, clientErr) ==
    /\ proc = "running"
    /\ llm = NoLLM
    /\ options' = opts
    /\ IF "GEMINI_API_KEY" \notin env \/ clientErr
       THEN proc' = "exited" /\ llm' = llm
       ELSE proc' = proc /\ llm' = geminiLLM(env, opts)
    /\ UNCHANGED <<env, lastCall, calls, ctx, elemVars>>

NextConfig ==
    \/ \E opts \in OptionLists : NewAnthropicLLM(opts)
    \/ \E opts \in OptionLists : NewMistralLLM(opts)
    \/ \E opts \in OptionLists, clientErr \in BOOLEAN : NewGeminiClient(opts, clientErr)

SpecConfig == InitConfig /\ [][NextConfig]_vars

(***************************************************************************)
(* The constructors, and what a caller can do with the adapter it got: an  *)
(* option is a func(interface{}) value that WithMaxTokens or WithModelName *)
(* returns to any caller, so a caller can invoke it on the adapter again.  *)
(***************************************************************************)
\* opt(llm), invoked by a caller on the adapter a constructor returned
InvokeOption(opt) ==
    /\ proc = "running"
    /\ llm # NoLLM
    /\ llm' = ApplyOption(llm, opt)
    /\ UNCHANGED <<env, proc, options, lastCall, calls, ctx, elemVars>>

NextCaller ==
    \/ NextConfig
    \/ \E opt \in Options : InvokeOption(opt)

SpecCaller == InitConfig /\ [][NextCaller]_vars

(***************************************************************************)
(* GenerateText of the three adapters.  A GenericTool is its provider tag  *)
(* (Type) and the Go type of its payload (Tool).  A call is two steps: the *)
(* adapter handles the tools and issues its request to the provider's      *)
(* client, or returns an error at once; then the client answers and the    *)
(* adapter returns.  A text is the sequence of the pieces it is made of;    *)
(* the call keeps what the client answered (answer).                       *)
(* A behaviour holds one call: GenerateText writes no field of the adapter,*)
(* so a further call would start from the state this one started from.     *)
(***************************************************************************)
ToolTypes == {"anthropic", "mistral", "gemini"}

\* the payload type each adapter asserts
PayloadOf(provider) ==
    CASE provider = "anthropic" -> "anthropic.ToolDefinition"
      [] provider = "mistral"   -> "mistral.Tool"
      [] provider = "gemini"    -> "*genai.Tool"

\* NewAnthropicTool, NewMistralTool, NewGeminiTool
NewTool(provider) == [Type |-> provider, Tool |-> PayloadOf(provider)]

\* every GenericTool{Type, Tool} value
GenericTools == {[Type |-> t, Tool |-> PayloadOf(p)] : t \in ToolTypes, p \in ToolTypes}

\* the descriptors of mistralLLM[T]'s GenerateOptions[T] carry no tag of their
\* own: the tag of a descriptor is the type of its payload
TypedTools == {NewTool(p) : p \in ToolTypes}

GenerateOptions(tools) ==
    {[nil |-> FALSE, Tools |-> ts, ResponseMIMEType |-> m] :
        ts \in UNION {[1..n -> tools] : n \in 0..MaxTools},
        m \in {"", "application/json"}}
      \cup {NilOptions}

\* faulty variant: a tool of another provider is skipped instead of failing the call
anthropicTools_SkipMismatch(opts) ==
    [err   |-> "nil",
     tools |-> SelectSeq(opts.Tools, LAMBDA t : t.Type = "anthropic"
                                        /\ t.Tool = "anthropic.ToolDefinition")]

\* anthropicLLM.GenerateText, tool handling: the first tool whose Type is not
\* AnthropicToolType or whose payload is no anthropic.ToolDefinition ends the call
anthropicTools(opts) ==
    LET bad == {i \in DOMAIN opts.Tools :
                   \/ opts.Tools[i].Type # "anthropic"
                   \/ opts.Tools[i].Tool # "anthropic.ToolDefinition"}
    IN  IF opts.nil \/ opts.Tools = <<>> THEN [err |-> "nil", tools |-> <<>>]
        ELSE IF bad = {} THEN [err |-> "nil", tools |-> opts.Tools]
        ELSE LET i == CHOOSE i \in bad : \A j \in bad : i <= j
             IN  [err   |-> IF opts.Tools[i].Type # "anthropic"
                            THEN "error: tool type mismatch for Anthropic LLM"
                            ELSE "error: invalid tool type for Anthropic LLM",
                  tools |-> <<>>]

\* geminiLLM.GenerateText, tool handling
geminiTools(opts) ==
    LET bad == {i \in DOMAIN opts.Tools :
                   \/ opts.Tools[i].Type # "gemini"
                   \/ opts.Tools[i].Tool # "*genai.Tool"}
    IN  IF opts.nil \/ opts.Tools = <<>> THEN [err |-> "nil", tools |-> <<>>]
        ELSE IF bad = {} THEN [err |-> "nil", tools |-> opts.Tools]
        ELSE LET i == CHOOSE i \in bad : \A j \in bad : i <= j
             IN  [err   |-> IF opts.Tools[i].Type # "gemini"
                            THEN "error: tool type mismatch for Gemini LLM"
                            ELSE "error: invalid tool type for Gemini LLM",
                  tools |-> <<>>]

\* mistralLLM.GenerateText, tool handling: any(opt.Tool).(mistral.Tool)
mistralTools(opts) ==
    LET bad == {i \in DOMAIN opts.Tools : opts.Tools[i].Tool # "mistral.Tool"}
    IN  IF opts.nil \/ opts.Tools = <<>> THEN [err |-> "nil", tools |-> <<>>]
        ELSE IF bad = {} THEN [err |-> "nil", tools |-> opts.Tools]
        ELSE [err |-> "tool doesn't implement mistral.Tool", tools |-> <<>>]

\* the call as it stands after the tool handling of the adapter
Called(provider, opts, handled, request) ==
    IF handled.err # "nil"
    THEN [provider |-> provider, opts |-> opts, phase |-> "returned", issued |-> FALSE,
          request |-> NoRequest, answer |-> NoAnswer, text |-> <<>>, err |-> handled.err,
          panic |-> FALSE]
    ELSE [provider |-> provider, opts |-> opts, phase |-> "requested", issued |-> TRUE,
          request |-> request, answer |-> NoAnswer, text |-> <<>>, err |-> "nil",
          panic |-> FALSE]

\* anthropicLLM.GenerateText up to a.client.CreateMessages, on the adapter l
anthropicCall(l, opts) ==
    LET h == anthropicTools(opts)
    IN  Called("anthropic", opts, h,
               [Model       |-> l.modelName,
                MaxTokens   |-> l.maxTokens,
                Temperature |-> l.temperature,
                TopP        |-> l.topP,
                TopK        |-> 0,
                MIMEType    |-> "",
                Tools       |-> h.tools])

\* mistralLLM.GenerateText up to m.client.Chat, on the adapter l
mistralCall(l, opts) ==
    LET h == mistralTools(opts)
    IN  Called("mistral", opts, h,
               [Model       |-> l.modelName,
                MaxTokens   |-> l.maxTokens,
                Temperature |-> l.temperature,
                TopP        |-> l.topP,
                TopK        |-> 0,
                MIMEType    |-> "",
                Tools       |-> h.tools])

\* geminiLLM.GenerateText up to session.SendMessage, on the adapter l
geminiCall(l, opts) ==
    LET h == geminiTools(opts)
    IN  Called("gemini", opts, h,
               [Model       |-> l.modelName,
                MaxTokens   |-> l.maxTokens,
                Temperature |-> l.temperature,
                TopP        |-> l.topP,
                TopK        |-> 64,
                MIMEType    |-> "text/plain",
                Tools       |-> h.tools])

AnthropicGenerateText(opts) ==
    /\ llm.provider = "anthropic"
    /\ lastCall = NoCall
    /\ lastCall' = anthropicCall(llm, opts)
    /\ UNCHANGED <<env, proc, llm, options, calls, ctx, elemVars>>

MistralGenerateText(opts) ==
    /\ llm.provider = "mistral"
    /\ lastCall = NoCall
    /\ lastCall' = mistralCall(llm, opts)
    /\ UNCHANGED <<env, proc, llm, options, calls, ctx, elemVars>>

GeminiGenerateText(opts) ==
    /\ llm.provider = "gemini"
    /\ lastCall = NoCall
    /\ lastCall' = geminiCall(llm, opts)
    /\ UNCHANGED <<env, proc, llm, options, calls, ctx, elemVars>>

\* what a provider's client may answer: an error, or items (Anthropic content
\* blocks, Mistral choices, Gemini candidates), each the sequence of its texts
\* (a content block without text is <<>>, a Gemini candidate holds its parts)
ClientErrors == {"APIError", "TransportError"}

\* a client given a cancelled context returns the context's error
Canceled == [err |-> "Canceled", items |-> <<>>]

Responses(provider) ==
    {[err |-> e, items |-> <<>>] : e \in ClientErrors}
      \cup {[err |-> "nil", items |-> it] :
              it \in {<<>>, << <<>> >>, << <<"A">> >>, << <<"A">>, <<"B">> >>}
                       \cup (IF provider = "gemini" THEN {<< <<"A", "B">> >>} ELSE {})}

\* what the client may answer under the context c: a client that was handed the
\* context answers a cancelled one with its error
ResponsesUnder(provider, c) ==
    IF c.cancelled /\ PassesContext(provider) THEN {Canceled} ELSE Responses(provider)

RECURSIVE geminiOutput_Concat(_, _)
\* faulty variant: output += fmt.Sprintf("%v\n", part), the parts are concatenated
geminiOutput_Concat(output, parts) ==
    IF parts = <<>> THEN output
    ELSE geminiOutput_Concat(output \o <<Head(parts), "\n">>, Tail(parts))

RECURSIVE geminiOutput(_, _)
\* for _, part := range Parts { output = fmt.Sprintf("%v\n", part) }
geminiOutput(output, parts) ==
    IF parts = <<>> THEN output
    ELSE geminiOutput(<<Head(parts), "\n">>, Tail(parts))

\* the (text, error) the adapter returns for the client's answer, or a run-time
\* panic: index out of range, nil pointer dereference
Returned(provider, resp) ==
    IF resp.err # "nil"
    THEN [text |-> <<>>, panic |-> FALSE,
          err  |-> CASE provider = "anthropic" /\ resp.err = "APIError" ->
                          "anthropic API error, type, message"
                     [] provider = "anthropic" /\ resp.err # "APIError" ->
                          "anthropic API error"
                     [] provider = "mistral" -> "error getting chat completion"
                     [] provider = "gemini"  -> "error sending message"]
    ELSE IF resp.items = <<>>
    THEN [text |-> <<>>, panic |-> TRUE, err |-> "nil"]
    ELSE IF provider = "gemini"
    THEN [text |-> geminiOutput(<<>>, resp.items[1]), panic |-> FALSE, err |-> "nil"]
    ELSE IF provider = "anthropic" /\ resp.items[1] = <<>>
    THEN [text |-> <<>>, panic |-> TRUE, err |-> "nil"]
    ELSE [text |-> resp.items[1], panic |-> FALSE, err |-> "nil"]

\* the client answers and GenerateText returns
ClientReturns(resp) ==
    /\ lastCall.phase = "requested"
    /\ LET r == Returned(lastCall.provider, resp)
       IN  lastCall' = [lastCall EXCEPT !.phase = "returned", !.answer = resp,
                                        !.text = r.text, !.err = r.err,
                                        !.panic = r.panic]
    /\ UNCHANGED <<env, proc, llm, options, calls, ctx, elemVars>>

\* the option lists the repository builds adapters with: none (the tests'
\* adapters) and WithMaxTokens(8192) (ExtractInsights.Setup)
UsedOptionLists == {<<>>, <<WithMaxTokens(8192)>>}

InitLLM ==
    /\ ei = NewExtractInsights(0, RetryDelaySeconds)
    /\ pc = "idle"
    /\ attempt = 0
    /\ insights = ZeroInsights
    /\ err = "nil"
    /\ generated = <<>>
    /\ inflight = 0
    /\ sleeps = 0
    /\ emitted = <<>>
    /\ env = EnvVars
    /\ proc = "running"
    /\ options \in UsedOptionLists
    /\ llm \in {anthropicLLM(env, options), mistralLLM(env, options), geminiLLM(env, options)}
    /\ lastCall = NoCall
    /\ calls = NoCalls
    /\ ctx = Live

NextLLM ==
    \/ \E opts \in GenerateOptions(GenericTools) : AnthropicGenerateText(opts)
    \/ \E opts \in GenerateOptions(TypedTools) : MistralGenerateText(opts)
    \/ \E opts \in GenerateOptions(GenericTools) : GeminiGenerateText(opts)
    \/ \E resp \in ResponsesUnder(lastCall.provider, ctx) : ClientReturns(resp)
    \/ Cancel(IF lastCall = NoCall THEN 0 ELSE 1, lastCall.phase = "requested")

SpecLLM == InitLLM /\ [][NextLLM]_vars

(***************************************************************************)
(* Callers sharing one adapter.  Each caller makes one GenerateText call   *)
(* with its own options; the calls interleave at their two steps (up to    *)
(* the client call, and from the client's answer on).  A GenerateText body *)
(* reads the adapter's fields and assigns only locals; the Gemini adapter  *)
(* builds a fresh GenerativeModel per call.                                *)
(***************************************************************************)
\* the options of the callers: nil, JSON output without tools, one tool of
\* each provider
CallerOptions ==
    {NilOptions, [nil |-> FALSE, Tools |-> <<>>, ResponseMIMEType |-> "application/json"]}
      \cup {[nil |-> FALSE, Tools |-> <<NewTool(p)>>, ResponseMIMEType |-> ""] :
               p \in ToolTypes}

\* GenerateText of the adapter l up to the call of its client
GenerateTextCall(l, opts) ==
    CASE l.provider = "anthropic" -> anthropicCall(l, opts)
      [] l.provider = "mistral"   -> mistralCall(l, opts)
      [] l.provider = "gemini"    -> geminiCall(l, opts)

\* faulty variant: a call given tools switches the adapter to a tool-capable model
CallerGenerateText_WritesConfig(c, opts) ==
    /\ calls[c] = NoCall
    /\ calls' = [calls EXCEPT ![c] = GenerateTextCall(llm, opts)]
    /\ llm' = IF opts.Tools # <<>> THEN [llm EXCEPT !.modelName = "tools"] ELSE llm
    /\ UNCHANGED <<env, proc, options, lastCall, ctx, elemVars>>

\* caller c calls llm.GenerateText(ctx, prompt, opts)
CallerGenerateText(c, opts) ==
    /\ calls[c] = NoCall
    /\ calls' = [calls EXCEPT ![c] = GenerateTextCall(llm, opts)]
    /\ UNCHANGED <<env, proc, llm, options, lastCall, ctx, elemVars>>

\* the client answers caller c's request and its GenerateText returns
CallerReturns(c, resp) ==
    /\ calls[c].phase = "requested"
    /\ LET r == Returned(calls[c].provider, resp)
       IN  calls' = [calls EXCEPT ![c] = [@ EXCEPT !.phase = "returned", !.answer = resp,
                                                   !.text = r.text, !.err = r.err,
                                                   !.panic = r.panic]]
    /\ UNCHANGED <<env, proc, llm, options, lastCall, ctx, elemVars>>

NextShared ==
    \/ \E c \in Callers, opts \in CallerOptions : CallerGenerateText(c, opts)
    \/ \E c \in Callers : \E resp \in Responses(calls[c].provider) : CallerReturns(c, resp)

SpecShared == InitLLM /\ [][NextShared]_vars

(***************************************************************************)
(* Vocabulary of the properties.                                           *)
(***************************************************************************)
\* the call ended in a generation error
GenFailed(o) == o.err # "nil"

\* GenerateText returned a text that json.Unmarshal rejects
DecodeFailed(o) == o.err = "nil" /\ Unmarshal(o.text).err # "nil"

AttemptFailed(o) == GenFailed(o) \/ DecodeFailed(o)

\* the keys of a JSON object's members
Keys(members) == {members[i][1] : i \in DOMAIN members}

\* the value a JSON object gives for key (its last member of that key)
ValueOf(members, key) ==
    LET I == {i \in DOMAIN members : members[i][1] = key}
    IN  members[CHOOSE i \in I : \A j \in I : j <= i][2]

\* the type insights_schema.json gives each property
SchemaTypeOK(key, val) ==
    CASE key = "overall_assessment" -> val.t = "string"
      [] key = "questions_answered_correctly" -> val.t = "number"
      [] key \in {"strengths", "weaknesses"} ->
           val.t = "array" /\ \A i \in DOMAIN val.v : val.v[i].t = "string"
      [] OTHER -> val.t = "object" /\ \A i \in DOMAIN val.v : val.v[i][2].t = "string"

\* the text is a JSON object carrying every required property of the schema
HasRequired(text) ==
    /\ text.syntax = "json"
    /\ text.value.t = "object"
    /\ SchemaRequired \subseteq Keys(text.value.v)

\* the text satisfies insights_schema.json
SchemaValid(text) ==
    /\ HasRequired(text)
    /\ Keys(text.value.v) = SchemaRequired
    /\ \A k \in SchemaRequired : SchemaTypeOK(k, ValueOf(text.value.v, k))

\* the last GenerateText result of the invocation
LastOutcome == generated[Len(generated)]

(***************************************************************************)
(* C1: with GenerateText failing on attempts 1..k-1 and returning a        *)
(* schema-valid response on attempt k, ProcessElement emits exactly once,  *)
(* the InsightsResult decoded from the attempt-k response, and attempt k   *)
(* is the last GenerateText call of the invocation.                        *)
(***************************************************************************)
C1_RetryThenSuccess ==
    \A k \in 1..Len(generated) :
        ( /\ \A j \in 1..(k - 1) : GenFailed(generated[j])
          /\ ~GenFailed(generated[k])
          /\ SchemaValid(generated[k].text) )
        => /\ emitted = <<Unmarshal(generated[k].text).insights>>
           /\ Len(generated) = k
           /\ inflight = 0
           /\ pc = "done"

\* two generation errors, then a schema-valid response on the third attempt
C1_Witness ==
    /\ pc = "done"
    /\ Len(generated) = 3
    /\ GenFailed(generated[1]) /\ GenFailed(generated[2])
    /\ ~GenFailed(generated[3]) /\ SchemaValid(generated[3].text)
    /\ Len(emitted) = 1

(***************************************************************************)
(* C2: when every attempt of the record failed (generation or decode       *)
(* error, in any mix), nothing was emitted -- in particular not one        *)
(* zero-valued InsightsResult.                                             *)
(***************************************************************************)
C2_ExhaustionEmitsNothing ==
    (\A j \in 1..Len(generated) : AttemptFailed(generated[j]))
        => (emitted = <<>> /\ emitted # <<ZeroInsights>>)

\* three failed attempts of both kinds, and the invocation has returned
C2_Witness ==
    /\ pc = "done"
    /\ ei.MaxRetries = 3
    /\ Len(generated) = 3
    /\ \A j \in 1..3 : AttemptFailed(generated[j])
    /\ \E i, j \in 1..3 : GenFailed(generated[i]) /\ DecodeFailed(generated[j])
    /\ emitted = <<>>

(***************************************************************************)
(* C3: every emitted InsightsResult was decoded from a response carrying   *)
(* all six required properties of the schema; {} is never emitted as a     *)
(* default-filled InsightsResult.                                          *)
(***************************************************************************)
C3_OnlyFullyPopulatedEmitted ==
    emitted # <<>> => HasRequired(LastOutcome.text)

(***************************************************************************)
(* C5: one record costs at most MaxRetries GenerateText calls.             *)
(***************************************************************************)
C5_BoundedCalls ==
    Len(generated) + inflight <= ei.MaxRetries

\* all MaxRetries = 3 calls were made
C5_Witness ==
    /\ pc = "done"
    /\ ei.MaxRetries = 3
    /\ Len(generated) = 3

(***************************************************************************)
(* C6: an attempt that fails with a tool-type-mismatch error is the last   *)
(* GenerateText call for the record: the error is not retried.             *)
(***************************************************************************)
C6_ToolMismatchNotRetried ==
    \A j \in 1..Len(generated) :
        generated[j].err = "ToolMismatchError" => (Len(generated) = j /\ inflight = 0)

(***************************************************************************)
(* C7: extractInsights returns a non-nil error with the zero InsightsResult*)
(* for a generation failure and for a decode failure alike, a nil error    *)
(* otherwise; and after a failed attempt the position of ProcessElement    *)
(* (sleeping, retrying or exhausted) is fixed by the attempt count alone.  *)
(***************************************************************************)
C7_FailuresAlike ==
    Len(generated) > 0 =>
        IF AttemptFailed(LastOutcome)
        THEN /\ err # "nil"
             /\ insights = ZeroInsights
             /\ emitted = <<>>
             /\ \/ pc = "sleep" /\ attempt = Len(generated) - 1
                \/ pc = "loop" /\ attempt = Len(generated)
                \/ pc = "generating" /\ attempt = Len(generated)
                      /\ attempt < ei.MaxRetries
                \/ pc = "done" /\ attempt = Len(generated) /\ attempt = ei.MaxRetries
        ELSE err = "nil" /\ pc = "done"

\* a record exhausted by a generation failure and a decode failure
C7_Witness ==
    /\ pc = "done"
    /\ emitted = <<>>
    /\ Len(generated) >= 2
    /\ \E i, j \in 1..Len(generated) :
          GenFailed(generated[i]) /\ DecodeFailed(generated[j])

(***************************************************************************)
(* C8: the emitted InsightsResult carries, field by field, the values of   *)
(* the response it was decoded from, lists in the response's order.        *)
(***************************************************************************)
\* the Go []string of a JSON array of strings, nil for null
StringsOf(val) ==
    IF val.t = "null" THEN NilSlice ELSE Slice([i \in DOMAIN val.v |-> val.v[i].v])

\* the Go map[string]string of a JSON object of strings, nil for null
MapOf(val) ==
    IF val.t = "null" THEN NilMap
    ELSE [nil |-> FALSE, kv |-> {<<val.v[i][1], val.v[i][2].v>> : i \in DOMAIN val.v}]

LastWrite(opts, field, none) ==
    LET I == {i \in DOMAIN opts : opts[i].field = field}
    IN  IF I = {} THEN none
        ELSE opts[CHOOSE i \in I : \A j \in I : j <= i]

\* the model name each constructor starts from
DefaultModelName(provider) ==
    CASE provider = "anthropic" -> "claude-instant-1.2"
      [] provider = "mistral"   -> "mistral-small-latest"
      [] provider = "gemini"    -> "gemini-1.5-pro-exp-0801"

C9_LastWriteWins ==
    llm # NoLLM =>
        /\ llm.modelName =
             LastWrite(options, "modelName", WithModelName(DefaultModelName(llm.provider))).str
        /\ llm.maxTokens = LastWrite(options, "maxTokens", WithMaxTokens(512)).int
        /\ llm.temperature = 7
        /\ llm.topP = 10

\* [WithModelName("X"), WithModelName("Y")] gave model name "Y"
C9_Witness ==
    /\ llm # NoLLM
    /\ options = <<WithModelName("X"), WithModelName("Y")>>
    /\ llm.modelName = "Y"
    /\ llm.maxTokens = 512

(***************************************************************************)
(* C10: without options each constructor yields temperature 0.7, max       *)
(* tokens 512, top-p 1 and the provider's default model name.              *)
(***************************************************************************)
C10_Defaults ==
    (llm # NoLLM /\ options = <<>>) =>
        /\ llm.temperature = 7
        /\ llm.maxTokens = 512
        /\ llm.topP = 10
        /\ llm.provider = "anthropic" => llm.modelName = "claude-instant-1.2"
        /\ llm.provider = "mistral" => llm.modelName = "mistral-small-latest"
        /\ llm.provider = "gemini" => llm.modelName = "gemini-1.5-pro-exp-0801"

\* NewMistralLLM() returned its adapter
C10_Witness ==
    /\ llm # NoLLM
    /\ llm.provider = "mistral"
    /\ options = <<>>
    /\ llm.maxTokens = 512

(***************************************************************************)
(* C4: a GenerateText call whose Tools hold, at any position, a tool       *)
(* tagged for another provider returns an error, and the adapter's client  *)
(* is not called for it.                                                   *)
(***************************************************************************)
\* the call was given a tool tagged for another provider than the adapter's
HasMismatchedTool(call) ==
    \E i \in DOMAIN call.opts.Tools : call.opts.Tools[i].Type # call.provider

C4_MismatchedToolFailsCall ==
    (lastCall # NoCall /\ HasMismatchedTool(lastCall)) =>
        /\ lastCall.err # "nil"
        /\ lastCall.phase = "returned"
        /\ ~lastCall.issued
        /\ lastCall.request = NoRequest

\* a mismatched tool after a matching one failed the call
C4_Witness ==
    /\ lastCall # NoCall
    /\ Len(lastCall.opts.Tools) = 2
    /\ lastCall.opts.Tools[1] = NewTool(lastCall.provider)
    /\ lastCall.opts.Tools[2].Type # lastCall.provider
    /\ lastCall.err # "nil"
    /\ ~lastCall.issued

(***************************************************************************)
(* C11: a constructor called while its provider's API key is absent from   *)
(* the environment returns no adapter: every adapter that exists was built *)
(* with its credential, so no request can go out without one.              *)
(***************************************************************************)
\* the environment variable holding the API key of each provider
KeyOf(provider) ==
    CASE provider = "anthropic" -> "CLAUDE_API_KEY"
      [] provider = "mistral"   -> "MISTRAL_API_KEY"
      [] provider = "gemini"    -> "GEMINI_API_KEY"

C11_MissingKeyFailsConstruction ==
    llm # NoLLM => (KeyOf(llm.provider) \in env /\ llm.apiKey # "")

(***************************************************************************)
(* C12: the request the Gemini adapter issues carries the call's           *)
(* ResponseMIMEType when that is non-empty, with or without tools, and     *)
(* "text/plain" when it is empty or the options are nil.                   *)
(***************************************************************************)
\* the response MIME type the call's options ask for
WantedMIMEType(opts) ==
    IF ~opts.nil /\ opts.ResponseMIMEType # "" THEN opts.ResponseMIMEType ELSE "text/plain"

C12_GeminiForwardsMIMEType ==
    (lastCall.provider = "gemini" /\ lastCall.issued) =>
        lastCall.request.MIMEType = WantedMIMEType(lastCall.opts)

(***************************************************************************)
(* C13: a GenerateText call that succeeds returns the text the provider    *)
(* generated (the text of the first content block, choice or candidate of  *)
(* the client's answer), character for character.                          *)
(***************************************************************************)
\* the call returned a text and no error
Succeeded(call) ==
    call.phase = "returned" /\ call.issued /\ call.err = "nil" /\ ~call.panic

C13_ReturnsProviderTextVerbatim ==
    Succeeded(lastCall) => lastCall.text = lastCall.answer.items[1]

(***************************************************************************)
(* C14: with any number of callers' GenerateText calls interleaved on one  *)
(* adapter, the adapter stays as it was constructed, and each call's       *)
(* request and result are those of its own options and of its own answer   *)
(* from the client: what the call would be on the adapter alone.           *)
(***************************************************************************)
\* the adapter as its constructor returned it
AsConstructed ==
    CASE llm.provider = "anthropic" -> anthropicLLM(env, options)
      [] llm.provider = "mistral"   -> mistralLLM(env, options)
      [] llm.provider = "gemini"    -> geminiLLM(env, options)

\* the call of options opts, answered by answer if it was, made on the adapter alone
AloneCall(opts, phase, answer) ==
    LET begun == GenerateTextCall(AsConstructed, opts)
        r     == Returned(begun.provider, answer)
    IN  IF begun.phase = "returned" \/ phase = "requested" THEN begun
        ELSE [begun EXCEPT !.phase = "returned", !.answer = answer, !.text = r.text,
                           !.err = r.err, !.panic = r.panic]

C14_CallsDoNotInterfere ==
    /\ llm = AsConstructed
    /\ \A c \in Callers :
          calls[c] # NoCall =>
              calls[c] = AloneCall(calls[c].opts, calls[c].phase, calls[c].answer)

\* two calls with different options in flight at once, one of them answered later
C14_Witness ==
    \E c, d \in Callers :
        /\ c # d
        /\ calls[c].phase = "returned" /\ calls[c].issued /\ calls[c].err = "nil"
        /\ calls[d].phase = "requested"
        /\ calls[c].opts # calls[d].opts
        /\ calls[c].opts.Tools # <<>>

(***************************************************************************)
(* C15: whatever GenerateText or decoding fail with, on any attempt, the   *)
(* invocation of ProcessElement returns; a record whose attempts all       *)
(* failed ends exhausted (MaxRetries calls made, nothing emitted), and the *)
(* element is left as it was for the records that follow.                  *)
(***************************************************************************)
\* every attempt made for the record failed
AllFailed == \A j \in 1..Len(generated) : AttemptFailed(generated[j])

\* ProcessElement returned after the last permitted attempt failed
ExhaustedFailure ==
    /\ pc = "done"
    /\ Len(generated) = ei.MaxRetries
    /\ attempt = ei.MaxRetries
    /\ emitted = <<>>

C15_ErrorsContained ==
    /\ <>(pc = "done")
    /\ []((pc = "done" /\ AllFailed) => ExhaustedFailure)
    /\ [][ei' = ei]_vars

\* a decode failure, then a deadline error: the record ended exhausted
C15_Witness ==
    /\ ExhaustedFailure
    /\ ei.MaxRetries = 2
    /\ DecodeFailed(generated[1])
    /\ generated[2].err = "DeadlineExceeded"

(***************************************************************************)
(* C16: a response that is a valid JSON object inside markdown code fences *)
(* or followed by a comment fails decoding: the attempt that received it   *)
(* is a failed attempt, and the response is not emitted.                   *)
(***************************************************************************)
\* the response is a JSON object wrapped in fences or followed by a comment
Wrapped(o) ==
    /\ o.err = "nil"
    /\ o.text.syntax \in {"fenced", "trailing_comment"}
    /\ Unmarshal(Text(o.text.value)).err = "nil"

C16_WrappedJSONRejected ==
    \A j \in 1..Len(generated) :
        Wrapped(generated[j]) =>
            /\ Unmarshal(generated[j].text).err = "SyntaxError"
            /\ extractInsights(generated[j]).err = "error unmarshaling insights"
            /\ j = Len(generated) =>
                  /\ err = "error unmarshaling insights"
                  /\ insights = ZeroInsights
                  /\ emitted = <<>>
            /\ emitted # <<>> => (j < Len(generated) /\ ~Wrapped(LastOutcome))

\* a fenced and a commented response used up the record's two attempts
C16_Witness ==
    /\ pc = "done"
    /\ Len(generated) = 2
    /\ Wrapped(generated[1]) /\ generated[1].text.syntax = "fenced"
    /\ Wrapped(generated[2]) /\ generated[2].text.syntax = "trailing_comment"
    /\ emitted = <<>>

(***************************************************************************)
(* C17: once a constructor has returned an adapter, its model name,        *)
(* temperature, max tokens and top-p stay what the constructor made them,  *)
(* whatever a caller does with the adapter afterwards.                     *)
(***************************************************************************)
C17_ConfigImmutable ==
    llm # NoLLM =>
        /\ llm.modelName = AsConstructed.modelName
        /\ llm.temperature = AsConstructed.temperature
        /\ llm.maxTokens = AsConstructed.maxTokens
        /\ llm.topP = AsConstructed.topP

(***************************************************************************)
(* C18: the element sleeps the inter-attempt delay after a failed attempt  *)
(* only when another attempt remains: a record that failed all of its      *)
(* MaxRetries attempts has slept MaxRetries - 1 times.                     *)
(***************************************************************************)
C18_NoSleepAfterLastAttempt ==
    /\ pc = "sleep" => attempt + 1 < ei.MaxRetries
    /\ (ExhaustedFailure /\ ei.MaxRetries > 0) => sleeps = ei.MaxRetries - 1

(***************************************************************************)
(* C19: one invocation has at most one GenerateText call in flight, and    *)
(* the call of attempt k+1 is made only when the k attempts before it have *)
(* returned failures and the delay after each of them has elapsed.         *)
(***************************************************************************)
C19_SequentialAttempts ==
    /\ inflight <= 1
    /\ inflight = 1 <=> pc = "generating"
    /\ pc = "generating" =>
          /\ Len(generated) = attempt
          /\ sleeps = attempt
          /\ AllFailed

\* the third attempt is in flight after two failures and two delays
C19_Witness ==
    /\ pc = "generating"
    /\ inflight = 1
    /\ attempt = 2
    /\ Len(generated) = 2
    /\ sleeps = 2

(***************************************************************************)
(* C20: an invocation calls emit at most once, and once it has called emit *)
(* it is over: no GenerateText call is in flight or made, no sleep and no  *)
(* further emit follow.                                                    *)
(***************************************************************************)
C20_EmitOnceThenStop ==
    /\ [](Len(emitted) <= 1)
    /\ [](emitted # <<>> => (pc = "done" /\ inflight = 0))
    /\ [][emitted # <<>> => /\ emitted' = emitted
                            /\ generated' = generated
                            /\ inflight' = inflight
                            /\ sleeps' = sleeps]_vars

\* emitted at the second of three permitted attempts
C20_Witness ==
    /\ Len(emitted) = 1
    /\ pc = "done"
    /\ ei.MaxRetries = 3
    /\ Len(generated) = 2
    /\ sleeps = 1

(***************************************************************************)
(* C21: with every GenerateText call returning, every invocation of        *)
(* ProcessElement comes to its end and stays there, in exactly one of two  *)
(* states: Success (one result emitted) or ExhaustedFailure (none).        *)
(***************************************************************************)
\* ProcessElement returned right after emitting the result of its last attempt
Success ==
    /\ pc = "done"
    /\ Len(emitted) = 1
    /\ ~AttemptFailed(LastOutcome)
    /\ emitted[1] = extractInsights(LastOutcome).insights

C21_EndsInSuccessOrExhaustion ==
    /\ <>[](Success \/ ExhaustedFailure)
    /\ [](pc = "done" => (Success # ExhaustedFailure))

\* the record succeeded at its last permitted attempt
C21_Witness ==
    /\ Success
    /\ ei.MaxRetries = 3
    /\ Len(generated) = 3
    /\ sleeps = 2

(***************************************************************************)
(* C22: each adapter hands the caller's context to its provider call: a    *)
(* call begun under a cancelled context, or whose context is cancelled     *)
(* while it is in flight, returns an error and obtains no response of the  *)
(* provider.                                                               *)
(***************************************************************************)
\* the context was cancelled before the call began or while it was in flight
CancelledInTime == ctx.cancelled /\ (ctx.begun = 0 \/ ctx.inflight)

C22_ContextReachesProvider ==
    (lastCall.phase = "returned" /\ lastCall.issued /\ CancelledInTime) =>
        /\ lastCall.err # "nil"
        /\ lastCall.text = <<>>
        /\ lastCall.answer = Canceled

(***************************************************************************)
(* C23: cancelling the caller's context does not end the retry loop: each  *)
(* delay still runs in full before the next attempt, a record ends without *)
(* a result only after MaxRetries attempts, and a record whose context was *)
(* cancelled before its first attempt gets exactly MaxRetries attempts,    *)
(* every one failing on the context, and ends in ExhaustedFailure.         *)
(***************************************************************************)
C23_CancelDoesNotEndLoop ==
    /\ sleeps = attempt
    /\ (pc = "done" /\ emitted = <<>>) => Len(generated) = ei.MaxRetries
    /\ (pc = "done" /\ ctx.cancelled /\ ctx.begun = 0) =>
          /\ ExhaustedFailure
          /\ \A j \in 1..ei.MaxRetries : generated[j] = CanceledOutcome

\* cancelled before the first attempt: three attempts and three delays followed
C23_Witness ==
    /\ pc = "done"
    /\ ctx.cancelled /\ ctx.begun = 0
    /\ ei.MaxRetries = 3
    /\ Len(generated) = 3
    /\ sleeps = 3
    /\ emitted = <<>>

(***************************************************************************)
(* C24: an element built by NewExtractInsights holds MaxRetries >= 1, so   *)
(* ProcessElement makes at least one GenerateText call for every record.   *)
(***************************************************************************)
C24_AtLeastOneAttempt ==
    pc = "done" => (ei.MaxRetries >= 1 /\ Len(generated) >= 1)

(***************************************************************************)
(* C25: whatever options a constructor is given, the adapter it returns    *)
(* has maxTokens > 0.                                                      *)
(***************************************************************************)
C25_MaxTokensPositive ==
    llm # NoLLM => llm.maxTokens > 0

(***************************************************************************)
(* C26: a response carrying, at top level, a property the schema does not  *)
(* declare is a failed attempt: it is not decoded and never emitted.       *)
(***************************************************************************)
\* the response is a JSON object with a top-level property outside the schema
HasUndeclaredProperty(o) ==
    /\ o.err = "nil"
    /\ o.text.syntax = "json"
    /\ o.text.value.t = "object"
    /\ ~(Keys(o.text.value.v) \subseteq SchemaRequired)

C26_UndeclaredPropertyRejected ==
    \A j \in 1..Len(generated) :
        HasUndeclaredProperty(generated[j]) =>
            /\ extractInsights(generated[j]).err # "nil"
            /\ j = Len(generated) => emitted = <<>>

C28_AlwaysReturnsTextOrError ==
    lastCall.phase = "returned" =>
        /\ ~lastCall.panic
        /\ lastCall.err # "nil" => lastCall.text = <<>>
        /\ (lastCall.issued /\ lastCall.answer.err = "nil"
              /\ (lastCall.answer.items = <<>>
                    \/ (lastCall.provider = "anthropic" /\ lastCall.answer.items[1] = <<>>)))
             => lastCall.err # "nil"

=============================================================================
